---- MODULE Spec2Model ----
(***************************************************************************)
(* Model of morf/utils/job_runner_utils.py: run_job / run_image (one       *)
(* container job on a staging directory) and run_morf_job (the top-level   *)
(* wrapper that fetches the job's artifacts and runs the controller).      *)
(*                                                                         *)
(* Text is modelled as a sequence of symbols.  The load output is a        *)
(* sequence over Alphabet, in which the seven characters "sha256:" are one *)
(* symbol; a shell command is the sequence of the pieces its format string *)
(* puts together, each piece a sequence of symbols.  Every call into       *)
(* another module (storage, staging helpers, alerts, status sink) either   *)
(* returns or raises; every subprocess returns an exit status.  The names   *)
(* the file uses without defining them (logger in run_image, sys,          *)
(* fetch_file and the other helpers) are taken to come from the star       *)
(* import of line 31.                                                      *)
(***************************************************************************)
EXTENDS Integers, Sequences, FiniteSets, TLC

\* Longest load output that is enumerated.
MaxLen == 3

\* Number of run_image invocations that share one executor host.
NumJobs == 2

\* ------------------------------------------------------------------------
\* Values
\* ------------------------------------------------------------------------
PyNone == "<None>"

Modes == {"extract", "extract-holdout", "train", "test"}

Levels == {"all", "course", "session", "unknown"}

Courses == {PyNone, "CS101"}

Sessions == {PyNone, "002"}

Marker == "sha256:"

Whitespace == {" ", "\n"}

Alphabet == {Marker, "a", " ", "\n"}

Jobs == 1..NumJobs

\* the image archives a docker_url can name
Archives == {"x.tar", "y.tar"}

\* the key the executor gives a loaded archive: a digest of its content
\* (or its tag), the same for every load of the same archive
ImageId(archive) == <<"id", archive>>

RECURSIVE SeqsUpTo(_)
SeqsUpTo(n) ==
    IF n = 0 THEN {<<>>}
    ELSE LET shorter == SeqsUpTo(n - 1)
         IN  shorter \cup {Append(s, c) : s \in {t \in shorter : Len(t) = n - 1}, c \in Alphabet}

Outputs == SeqsUpTo(MaxLen)

\* the two values job_config.client_args takes here: empty, one argument
ClientArgs == {<<>>, << <<"k", "v">> >>}

\* paths of the local filesystem
Root == "local_working_directory"
WorkingDir == "tmp"
DockerImageFile == "tmp/docker_image"
ControllerFile == "tmp/controller.py"
InputDir == "tmp/input"
OutputDir == "tmp/output"
RawDataFiles == "tmp/input/raw"
TrainTestFiles == "tmp/input/traintest"
ModelFiles == "tmp/input/models"

Under(p) ==
    CASE p = Root -> Root
      [] p = WorkingDir -> Root
      [] p \in {DockerImageFile, ControllerFile, InputDir, OutputDir} -> WorkingDir
      [] OTHER -> InputDir

\* ------------------------------------------------------------------------
\* Python text operations
\* ------------------------------------------------------------------------
\* the characters of a mode string
Chars(m) ==
    CASE m = "extract" -> <<"e", "x", "t", "r", "a", "c", "t">>
      [] m = "extract-holdout" ->
            <<"e", "x", "t", "r", "a", "c", "t", "-", "h", "o", "l", "d", "o", "u", "t">>
      [] m = "train" -> <<"t", "r", "a", "i", "n">>
      [] m = "test" -> <<"t", "e", "s", "t">>

\* sub in s, for sequences of characters
StrIn(sub, s) ==
    \E i \in 0..(Len(s) - Len(sub)) : SubSeq(s, i + 1, i + Len(sub)) = sub

\* "sha256:" in load_output
HasMarker(s) == \E i \in 1..Len(s) : s[i] = Marker

\* s.split("sha256:")[-1]
AfterLastMarker(s) ==
    LET idx == {i \in 1..Len(s) : s[i] = Marker}
        last == IF idx = {} THEN 0 ELSE CHOOSE i \in idx : \A j \in idx : j <= i
    IN  SubSeq(s, last + 1, Len(s))

\* s.strip()
Strip(s) ==
    LET keep == {i \in 1..Len(s) : s[i] \notin Whitespace}
    IN  IF keep = {} THEN <<>>
        ELSE LET lo == CHOOSE i \in keep : \A j \in keep : i <= j
                 hi == CHOOSE i \in keep : \A j \in keep : j <= i
             IN  SubSeq(s, lo, hi)

\* s.split(): the maximal runs of non-whitespace, in order
RECURSIVE Split(_)
Split(s) ==
    IF s = <<>> THEN <<>>
    ELSE IF s[1] \in Whitespace THEN Split(Tail(s))
    ELSE LET stops == {i \in 1..Len(s) : s[i] \in Whitespace}
             stop == IF stops = {} THEN Len(s) + 1
                     ELSE CHOOSE i \in stops : \A j \in stops : i <= j
         IN  <<SubSeq(s, 1, stop - 1)>> \o Split(SubSeq(s, stop, Len(s)))

\* "{}".format(v)
Str(v) == IF v = PyNone THEN <<"None">> ELSE <<v>>

\* ------------------------------------------------------------------------
\* run_image: pure parts
\* ------------------------------------------------------------------------
\* lines 67, 72, 76: which inputs a mode stages
NeedsRawData_exact(m) == m = "extract"

NeedsRawData(m) == StrIn(Chars("extract"), Chars(m))

NeedsTrainTest_train_only(m) == m = "train"

NeedsTrainTest(m) == m \in {"train", "test"}

NeedsModels(m) == m = "test"

\* lines 85-88: the image key read from the output of the load command;
\* [-1] of an empty list raises IndexError
ResolveHandle_first(load_output) ==
    IF HasMarker(load_output)
    THEN LET first == CHOOSE i \in 1..Len(load_output) :
                          /\ load_output[i] = Marker
                          /\ \A j \in 1..(i - 1) : load_output[j] # Marker
             rest == SubSeq(load_output, first + 1, Len(load_output))
             stops == {i \in 1..Len(rest) : rest[i] = Marker}
             stop == IF stops = {} THEN Len(rest) + 1
                     ELSE CHOOSE i \in stops : \A j \in stops : i <= j
         IN  [raised |-> FALSE, image_uuid |-> Strip(SubSeq(rest, 1, stop - 1))]
    ELSE IF Split(load_output) = <<>>
    THEN [raised |-> TRUE, image_uuid |-> <<>>]
    ELSE [raised |-> FALSE,
          image_uuid |-> Strip(Split(load_output)[Len(Split(load_output))])]

ResolveHandle(load_output) ==
    IF HasMarker(load_output)
    THEN [raised |-> FALSE, image_uuid |-> Strip(AfterLastMarker(load_output))]
    ELSE IF Split(load_output) = <<>>
    THEN [raised |-> TRUE, image_uuid |-> <<>>]
    ELSE [raised |-> FALSE,
          image_uuid |-> Strip(Split(load_output)[Len(Split(load_output))])]

\* line 80
LoadCmd(docker_exec, working_dir) ==
    << <<docker_exec>>, <<"load">>, <<"-i">>, <<working_dir, "/docker_image">>, <<";">> >>

\* the format string of lines 91 and 94
RunFormat(docker_exec, input_dir, output_dir, uuid, c, s, m) ==
    << <<docker_exec>>, <<"run">>, <<"--network=\"none\"">>, <<"--rm=true">>,
       <<"--volume=", input_dir, ":/input">>, <<"--volume=", output_dir, ":/output">>,
       uuid, <<"--course">>, Str(c), <<"--session">>, Str(s), <<"--mode">>, Str(m) >>

\* lines 97-99
RECURSIVE ExtraArgs(_)
ExtraArgs(args) ==
    IF args = <<>> THEN <<>>
    ELSE << <<"--", args[1][1]>>, <<args[1][2]>> >> \o ExtraArgs(Tail(args))

\* lines 90-99: the run command
RunCmd_passthrough(docker_exec, input_dir, output_dir, uuid, c, s, m, args) ==
    RunFormat(docker_exec, input_dir, output_dir, uuid, c, s, m) \o ExtraArgs(args)

RunCmd(docker_exec, input_dir, output_dir, uuid, c, s, m, args) ==
    (IF m = "extract-holdout"
     THEN RunFormat(docker_exec, input_dir, output_dir, uuid, c, s, "extract")
     ELSE RunFormat(docker_exec, input_dir, output_dir, uuid, c, s, m))
    \o ExtraArgs(args)

\* line 103
RmiCmd(docker_exec, uuid) == << <<docker_exec>>, <<"rmi">>, <<"--force">>, uuid >>

\* tempfile.TemporaryDirectory.__exit__: the directory and all below it go
RECURSIVE Inside(_, _)
Inside(p, dir) == p # Root /\ (p = dir \/ Inside(Under(p), dir))

Cleanup(files, dir) == {p \in files : ~Inside(p, dir)}

\* ------------------------------------------------------------------------
\* State
\* ------------------------------------------------------------------------
VARIABLES
    pc,          \* the statement the running function is at
    entry,       \* the function that was called: "run_job" or "run_morf_job"
    mode,        \* job_config.mode
    level,       \* run_job's level
    course,      \* run_job's course
    session,     \* run_job's session
    no_cache,    \* run_morf_job's no_cache
    ri_course,   \* run_image's course parameter
    ri_session,  \* run_image's session parameter
    fs,          \* the paths that exist on the local filesystem
    events,      \* the calls made to other modules and to the shell, in order
    cmds,        \* the shell commands issued, in order
    rcs,         \* their exit statuses
    load_output, \* run_image's load_output: what the load command printed
    image_uuid,  \* run_image's image_uuid
    loaded,      \* the load command put an image into the executor's cache
    exc,         \* the exception being propagated, "none" when there is none
    raised_by,   \* the call or expression that raised it
    logged,      \* what logger.error wrote
    exit_code,   \* the process's exit status once sys.exit ended it, else -1
    job_pc,      \* per concurrent run_image on one host: the statement it is at
    job_archive, \* per concurrent run_image: the image archive its docker_url names
    job_uuid,    \* per concurrent run_image: its image_uuid
    job_rc,      \* per concurrent run_image: exit status of its run, -1 before
    image_cache  \* the images in the executor's local cache

vars == <<pc, entry, mode, level, course, session, no_cache, ri_course, ri_session,
          fs, events, cmds, rcs, load_output, image_uuid, loaded, exc, raised_by, logged,
          exit_code, job_pc, job_archive, job_uuid, job_rc, image_cache>>

inputs == <<entry, mode, level, course, session, no_cache>>

\* the state of the executor host shared by concurrent invocations
host == <<job_pc, job_archive, job_uuid, job_rc, image_cache>>

Init ==
    /\ entry \in {"run_job", "run_morf_job"}
    /\ pc = entry
    /\ mode \in (IF entry = "run_job" THEN Modes ELSE {"extract"})
    /\ level \in (IF entry = "run_job" THEN Levels ELSE {"all"})
    /\ course \in (IF entry = "run_job" THEN Courses ELSE {PyNone})
    /\ session \in (IF entry = "run_job" THEN Sessions ELSE {PyNone})
    /\ no_cache \in (IF entry = "run_morf_job" THEN BOOLEAN ELSE {FALSE})
    /\ ri_course = PyNone
    /\ ri_session = PyNone
    /\ fs = {Root}
    /\ events = <<>>
    /\ cmds = <<>>
    /\ rcs = <<>>
    /\ load_output = <<>>
    /\ image_uuid = <<>>
    /\ loaded = FALSE
    /\ exc = "none"
    /\ raised_by = "none"
    /\ logged = "none"
    /\ exit_code = -1
    /\ job_pc = [j \in Jobs |-> "done"]
    /\ job_archive = [j \in Jobs |-> "x.tar"]
    /\ job_uuid = [j \in Jobs |-> <<>>]
    /\ job_rc = [j \in Jobs |-> -1]
    /\ image_cache = {}

Call(name) == events' = Append(events, name)

Shell(cmd, rc) == cmds' = Append(cmds, cmd) /\ rcs' = Append(rcs, rc)

\* ------------------------------------------------------------------------
\* run_job (lines 112-139)
\* ------------------------------------------------------------------------
RunJob_forward ==
    /\ pc = "run_job"
    /\ IF level \in {"all", "course", "session"}
       THEN pc' = "ri_enter" /\ ri_course' = course /\ ri_session' = session
       ELSE pc' = "done" /\ UNCHANGED <<ri_course, ri_session>>
    /\ UNCHANGED <<inputs, host, fs, events, cmds, rcs, load_output, image_uuid, loaded, exc, raised_by, logged, exit_code>>

RunJob_default ==
    /\ pc = "run_job"
    /\ CASE level = "all" ->
              pc' = "ri_enter" /\ UNCHANGED <<ri_course, ri_session>>
         [] level = "course" ->
              pc' = "ri_enter" /\ ri_course' = course /\ UNCHANGED ri_session
         [] OTHER ->
              pc' = "ri_enter" /\ ri_course' = course /\ ri_session' = session
    /\ UNCHANGED <<inputs, host, fs, events, cmds, rcs, load_output, image_uuid, loaded, exc,
                   raised_by, logged, exit_code>>

RunJob ==
    /\ pc = "run_job"
    /\ CASE level = "all" ->
              pc' = "ri_enter" /\ UNCHANGED <<ri_course, ri_session>>
         [] level = "course" ->
              pc' = "ri_enter" /\ ri_course' = course /\ UNCHANGED ri_session
         [] level = "session" ->
              pc' = "ri_enter" /\ ri_course' = course /\ ri_session' = session
         [] OTHER ->
              pc' = "done" /\ UNCHANGED <<ri_course, ri_session>>
    /\ UNCHANGED <<inputs, host, fs, events, cmds, rcs, load_output, image_uuid, loaded, exc, raised_by, logged, exit_code>>

\* ------------------------------------------------------------------------
\* run_image (lines 40-109)
\* ------------------------------------------------------------------------
\* lines 55-60: read the configuration, open the S3 client, create the
\* temporary directory; a failure here leaves before the with block is entered
RiEnter ==
    /\ pc = "ri_enter"
    /\ \E ok \in BOOLEAN :
         IF ok
         THEN /\ fs' = fs \cup {WorkingDir}
              /\ Call("mkdtemp")
              /\ pc' = "ri_fetch_image"
              /\ UNCHANGED <<exc, raised_by>>
         ELSE /\ exc' = "Exception"
              /\ raised_by' = "TemporaryDirectory"
              /\ pc' = "done"
              /\ UNCHANGED <<fs, events>>
    /\ UNCHANGED <<inputs, host, ri_course, ri_session, cmds, rcs, load_output, image_uuid, loaded, logged,
                   exit_code>>

\* lines 61-64: the image archive; a failed download is printed and passed over
RiFetchImage_fatal ==
    /\ pc = "ri_fetch_image"
    /\ Call("fetch_file:docker_image")
    /\ \E ok \in BOOLEAN :
         IF ok
         THEN /\ fs' = fs \cup {DockerImageFile}
              /\ pc' = "ri_init_dirs"
              /\ UNCHANGED <<exc, raised_by>>
         ELSE /\ exc' = "Exception"
              /\ raised_by' = "fetch_file:docker_image"
              /\ pc' = "unwind"
              /\ UNCHANGED fs
    /\ UNCHANGED <<inputs, host, ri_course, ri_session, cmds, rcs, load_output, image_uuid, loaded,
                   logged, exit_code>>

RiFetchImage ==
    /\ pc = "ri_fetch_image"
    /\ \E ok \in BOOLEAN :
         IF ok
         THEN /\ fs' = fs \cup {DockerImageFile}
              /\ Call("fetch_file:docker_image")
         ELSE /\ events' = events \o <<"fetch_file:docker_image", "print:[ERROR]">>
              /\ UNCHANGED fs
    /\ pc' = "ri_init_dirs"
    /\ UNCHANGED <<inputs, host, ri_course, ri_session, cmds, rcs, load_output, image_uuid, loaded, exc, raised_by,
                   logged, exit_code>>

\* a call into another module at statement `at`: it returns, leaving `made`
\* on disk, and control goes to `next`, or it raises and the with block unwinds
External(at, name, made, next) ==
    /\ pc = at
    /\ Call(name)
    /\ \E ok \in BOOLEAN :
         IF ok
         THEN fs' = fs \cup made /\ pc' = next /\ UNCHANGED <<exc, raised_by>>
         ELSE exc' = "Exception" /\ raised_by' = name /\ pc' = "unwind" /\ UNCHANGED fs
    /\ UNCHANGED <<inputs, host, ri_course, ri_session, cmds, rcs, load_output, image_uuid, loaded, logged,
                   exit_code>>

\* a statement whose condition is false
Skip(at, next) ==
    /\ pc = at
    /\ pc' = next
    /\ UNCHANGED <<inputs, host, ri_course, ri_session, fs, events, cmds, rcs, load_output, image_uuid, loaded,
                   exc, raised_by, logged, exit_code>>

\* line 65
RiInitDirs_input_only ==
    External("ri_init_dirs", "initialize_input_output_dirs", {InputDir}, "ri_raw")

RiInitDirs ==
    External("ri_init_dirs", "initialize_input_output_dirs", {InputDir, OutputDir}, "ri_raw")

\* lines 67-70
RiRawData ==
    IF NeedsRawData(mode)
    THEN External("ri_raw", "initialize_raw_course_data", {RawDataFiles}, "ri_train_test")
    ELSE Skip("ri_raw", "ri_train_test")

\* lines 72-75
RiTrainTest ==
    IF NeedsTrainTest(mode)
    THEN External("ri_train_test", "initialize_train_test_data", {TrainTestFiles}, "ri_models")
    ELSE Skip("ri_train_test", "ri_models")

\* lines 76-77
RiModels ==
    IF NeedsModels(mode)
    THEN External("ri_models", "download_models", {ModelFiles}, "ri_load")
    ELSE Skip("ri_models", "ri_load")

\* what the load command can print on stdout: with the archive loaded, text
\* that names the image, by digest or by a last token; with the load failed,
\* any text (the error text goes to stderr, which is not read, and neither
\* is the exit status: line 82 has no check and no use of returncode)
LoadedOutputs == {o \in Outputs : HasMarker(o) \/ Split(o) # <<>>}

FailedOutputs == Outputs

\* lines 79-88: load the archive, read the image key from the output
RiLoad ==
    /\ pc = "ri_load"
    /\ \E ok \in {b \in BOOLEAN : b => DockerImageFile \in fs} :
       \E out \in (IF ok THEN LoadedOutputs ELSE FailedOutputs) :
         /\ load_output' = out
         /\ Shell(LoadCmd("docker", WorkingDir), IF ok THEN 0 ELSE 1)
         /\ Call("load")
         /\ loaded' = ok
         /\ IF ResolveHandle(out).raised
            THEN /\ exc' = "IndexError"
                 /\ raised_by' = "load_output.split()[-1]"
                 /\ pc' = "unwind"
                 /\ UNCHANGED image_uuid
            ELSE /\ image_uuid' = ResolveHandle(out).image_uuid
                 /\ pc' = "ri_run"
                 /\ UNCHANGED <<exc, raised_by>>
    /\ UNCHANGED <<inputs, host, ri_course, ri_session, fs, logged, exit_code>>

\* lines 89-101: build the run command and call it; the exit status is dropped
RiRun_checked ==
    /\ pc = "ri_run"
    /\ \E args \in ClientArgs, rc \in {0, 1} :
         /\ Shell(RunCmd("docker", InputDir, OutputDir, image_uuid, ri_course, ri_session,
                         mode, args), rc)
         /\ IF rc = 0 THEN pc' = "ri_rmi" /\ UNCHANGED <<exc, raised_by>>
            ELSE pc' = "unwind" /\ exc' = "CalledProcessError" /\ raised_by' = "run"
    /\ Call("run")
    /\ UNCHANGED <<inputs, host, ri_course, ri_session, fs, load_output, image_uuid, loaded, logged, exit_code>>

RiRun ==
    /\ pc = "ri_run"
    /\ \E args \in ClientArgs, rc \in {0, 1} :
         Shell(RunCmd("docker", InputDir, OutputDir, image_uuid, ri_course, ri_session,
                      mode, args), rc)
    /\ Call("run")
    /\ pc' = "ri_rmi"
    /\ UNCHANGED <<inputs, host, ri_course, ri_session, fs, load_output, image_uuid, loaded, exc, raised_by,
                   logged, exit_code>>

\* lines 102-105: remove the image; the exit status is dropped
RiRmi ==
    /\ pc = "ri_rmi"
    /\ \E rc \in {0, 1} : Shell(RmiCmd("docker", image_uuid), rc)
    /\ Call("rmi")
    /\ pc' = "ri_archive"
    /\ UNCHANGED <<inputs, host, ri_course, ri_session, fs, load_output, image_uuid, loaded, exc, raised_by,
                   logged, exit_code>>

\* line 107
RiArchive == External("ri_archive", "make_output_archive_file", {}, "ri_upload")

\* line 108
RiUpload == External("ri_upload", "move_results_to_destination", {}, "exit_with")

\* the end of a with block (lines 60-109 and 156-176), reached by falling off
\* its end or by an exception or SystemExit passing through it: the temporary
\* directory is removed; SystemExit then ends the process, status -1 mod 256
ExitWith_leak ==
    /\ pc \in {"exit_with", "unwind"}
    /\ fs' = IF pc = "exit_with" THEN Cleanup(fs, WorkingDir) ELSE fs
    /\ Call("cleanup")
    /\ exit_code' = IF exc = "SystemExit" THEN (-1) % 256 ELSE exit_code
    /\ pc' = "done"
    /\ UNCHANGED <<inputs, host, ri_course, ri_session, cmds, rcs, load_output, image_uuid, loaded, exc, raised_by, logged>>

ExitWith ==
    /\ pc \in {"exit_with", "unwind"}
    /\ fs' = Cleanup(fs, WorkingDir)
    /\ Call("cleanup")
    /\ exit_code' = IF exc = "SystemExit" THEN (-1) % 256 ELSE exit_code
    /\ pc' = "done"
    /\ UNCHANGED <<inputs, host, ri_course, ri_session, cmds, rcs, load_output, image_uuid, loaded, exc, raised_by, logged>>

\* ------------------------------------------------------------------------
\* run_morf_job (lines 142-176)
\* ------------------------------------------------------------------------
\* the order of the statements of lines 156-176
MjAfter_status_first(at) ==
    CASE at = "mj_enter" -> "mj_status_initialized"
      [] at = "mj_status_initialized" -> "mj_alert"
      [] at = "mj_alert" -> "mj_fetch_image"
      [] at = "mj_fetch_image" -> "mj_fetch_controller"
      [] at = "mj_fetch_controller" -> IF no_cache THEN "mj_controller" ELSE "mj_cache_image"
      [] at = "mj_cache_image" -> "mj_cache_controller"
      [] at = "mj_cache_controller" -> "mj_controller"
      [] at = "mj_controller" -> "mj_status_success"
      [] at = "mj_status_success" -> "mj_success_alert"
      [] at = "mj_success_alert" -> "exit_with"

MjAfter_no_init(at) ==
    CASE at = "mj_enter" -> "mj_fetch_image"
      [] at = "mj_fetch_image" -> "mj_fetch_controller"
      [] at = "mj_fetch_controller" -> IF no_cache THEN "mj_alert" ELSE "mj_cache_image"
      [] at = "mj_cache_image" -> "mj_cache_controller"
      [] at = "mj_cache_controller" -> "mj_alert"
      [] at = "mj_status_initialized" -> "mj_alert"
      [] at = "mj_alert" -> "mj_controller"
      [] at = "mj_controller" -> "mj_status_success"
      [] at = "mj_status_success" -> "mj_success_alert"
      [] at = "mj_success_alert" -> "exit_with"

MjAfter(at) ==
    CASE at = "mj_enter" -> "mj_fetch_image"
      [] at = "mj_fetch_image" -> "mj_fetch_controller"
      [] at = "mj_fetch_controller" ->
            IF no_cache THEN "mj_status_initialized" ELSE "mj_cache_image"
      [] at = "mj_cache_image" -> "mj_cache_controller"
      [] at = "mj_cache_controller" -> "mj_status_initialized"
      [] at = "mj_status_initialized" -> "mj_alert"
      [] at = "mj_alert" -> "mj_controller"
      [] at = "mj_controller" -> "mj_status_success"
      [] at = "mj_status_success" -> "mj_success_alert"
      [] at = "mj_success_alert" -> "exit_with"

\* lines 165-168: where the KeyError handler leaves control, and with what
KeyErrorHandler_resume == [exc |-> "none", pc |-> "mj_status_initialized"]

KeyErrorHandler == [exc |-> "SystemExit", pc |-> "unwind"]

\* the fields of client.config read by the fetch and cache calls
ConfigFields == {"docker_url", "controller_url"}

\* lines 149-157: logger, S3 client, temporary directory, chdir into it
MjEnter ==
    /\ pc = "run_morf_job"
    /\ \E ok \in BOOLEAN :
         IF ok
         THEN /\ fs' = fs \cup {WorkingDir}
              /\ Call("mkdtemp")
              /\ pc' = MjAfter("mj_enter")
              /\ UNCHANGED <<exc, raised_by>>
         ELSE /\ exc' = "Exception"
              /\ raised_by' = "TemporaryDirectory"
              /\ pc' = "done"
              /\ UNCHANGED <<fs, events>>
    /\ UNCHANGED <<inputs, host, ri_course, ri_session, cmds, rcs, load_output, image_uuid, loaded,
                   logged, exit_code>>

\* a call inside the try of lines 159-168: it returns, or raises KeyError for
\* a missing field (logged, then sys.exit(-1)), or raises something else
Tried_best_effort(at, name, made) ==
    /\ pc = at
    /\ Call(name)
    /\ \/ /\ fs' = fs \cup made
          /\ pc' = MjAfter(at)
          /\ UNCHANGED <<exc, raised_by, logged>>
       \/ \E field \in ConfigFields :
            /\ logged' = field
            /\ raised_by' = name
            /\ exc' = KeyErrorHandler.exc
            /\ pc' = KeyErrorHandler.pc
            /\ UNCHANGED fs
       \/ /\ pc' = MjAfter(at)
          /\ UNCHANGED <<fs, exc, raised_by, logged>>
    /\ UNCHANGED <<inputs, host, ri_course, ri_session, cmds, rcs, load_output, image_uuid, loaded,
                   exit_code>>

Tried(at, name, made) ==
    /\ pc = at
    /\ Call(name)
    /\ \/ /\ fs' = fs \cup made
          /\ pc' = MjAfter(at)
          /\ UNCHANGED <<exc, raised_by, logged>>
       \/ \E field \in ConfigFields :
            /\ logged' = field
            /\ raised_by' = name
            /\ exc' = KeyErrorHandler.exc
            /\ pc' = KeyErrorHandler.pc
            /\ UNCHANGED fs
       \/ /\ exc' = "Exception"
          /\ raised_by' = name
          /\ pc' = "unwind"
          /\ UNCHANGED <<fs, logged>>
    /\ UNCHANGED <<inputs, host, ri_course, ri_session, cmds, rcs, load_output, image_uuid, loaded,
                   exit_code>>

\* line 160
MjFetchImage == Tried("mj_fetch_image", "fetch_file:docker_image", {DockerImageFile})

\* line 161
MjFetchController == Tried("mj_fetch_controller", "fetch_file:controller.py", {ControllerFile})

\* lines 162-163
MjCacheImage == Tried("mj_cache_image", "cache_job_file_in_s3:docker_image", {})

\* line 164
MjCacheController == Tried("mj_cache_controller", "cache_job_file_in_s3:controller.py", {})

\* line 170
MjStatusInitialized ==
    External("mj_status_initialized", "update_status:INITIALIZED", {},
             MjAfter("mj_status_initialized"))

\* line 171
MjAlert == External("mj_alert", "send_email_alert", {}, MjAfter("mj_alert"))

\* line 172: the controller script; the exit status is dropped
MjController_checked ==
    /\ pc = "mj_controller"
    /\ \E rc \in {0, 1} :
         /\ Shell(<< <<"python3">>, <<"controller.py">> >>, rc)
         /\ IF rc = 0
            THEN Call("controller") /\ pc' = "mj_status_success"
            ELSE events' = events \o <<"controller", "update_status:FAILED">>
                 /\ pc' = "exit_with"
    /\ UNCHANGED <<inputs, host, ri_course, ri_session, fs, load_output, image_uuid, loaded, exc,
                   raised_by, logged, exit_code>>

MjController ==
    /\ pc = "mj_controller"
    /\ \E rc \in {0, 1} : Shell(<< <<"python3">>, <<"controller.py">> >>, rc)
    /\ Call("controller")
    /\ pc' = MjAfter("mj_controller")
    /\ UNCHANGED <<inputs, host, ri_course, ri_session, fs, load_output, image_uuid, loaded, exc,
                   raised_by, logged, exit_code>>

\* line 173
MjStatusSuccess ==
    External("mj_status_success", "update_status:SUCCESS", {}, MjAfter("mj_status_success"))

\* lines 175-176
MjSuccessAlert ==
    External("mj_success_alert", "send_success_email", {}, MjAfter("mj_success_alert"))

RunMorfJob ==
    \/ MjEnter
    \/ MjFetchImage
    \/ MjFetchController
    \/ MjCacheImage
    \/ MjCacheController
    \/ MjStatusInitialized
    \/ MjAlert
    \/ MjController
    \/ MjStatusSuccess
    \/ MjSuccessAlert

RunImage ==
    \/ RiEnter
    \/ RiFetchImage
    \/ RiInitDirs
    \/ RiRawData
    \/ RiTrainTest
    \/ RiModels
    \/ RiLoad
    \/ RiRun
    \/ RiRmi
    \/ RiArchive
    \/ RiUpload

Next ==
    \/ RunJob
    \/ RunImage
    \/ RunMorfJob
    \/ ExitWith

Spec == Init /\ [][Next]_vars

\* ------------------------------------------------------------------------
\* Several run_image invocations on one executor host (lines 79-105)
\* ------------------------------------------------------------------------
single == <<pc, inputs, ri_course, ri_session, fs, events, cmds, rcs, load_output, image_uuid,
         loaded, exc, raised_by, logged, exit_code>>

InitHost ==
    /\ entry = "run_job"
    /\ pc = "done"
    /\ mode = "extract"
    /\ level = "all"
    /\ course = PyNone
    /\ session = PyNone
    /\ no_cache = FALSE
    /\ ri_course = PyNone
    /\ ri_session = PyNone
    /\ fs = {Root}
    /\ events = <<>>
    /\ cmds = <<>>
    /\ rcs = <<>>
    /\ load_output = <<>>
    /\ image_uuid = <<>>
    /\ loaded = FALSE
    /\ exc = "none"
    /\ raised_by = "none"
    /\ logged = "none"
    /\ exit_code = -1
    /\ job_pc = [j \in Jobs |-> "ri_load"]
    /\ job_archive \in [Jobs -> Archives]
    /\ job_uuid = [j \in Jobs |-> <<>>]
    /\ job_rc = [j \in Jobs |-> -1]
    /\ image_cache = {}

\* lines 79-88: the load puts the archive's image into the cache and prints
\* its key
HostLoad(j) ==
    /\ job_pc[j] = "ri_load"
    /\ image_cache' = image_cache \cup {ImageId(job_archive[j])}
    /\ job_uuid' = [job_uuid EXCEPT ![j] = ImageId(job_archive[j])]
    /\ job_pc' = [job_pc EXCEPT ![j] = "ri_run"]
    /\ UNCHANGED <<single, job_archive, job_rc>>

\* line 101, the call: the container starts when its image is in the cache;
\* otherwise the run command fails at once
HostRunStart(j) ==
    /\ job_pc[j] = "ri_run"
    /\ IF job_uuid[j] \in image_cache
       THEN job_pc' = [job_pc EXCEPT ![j] = "running"] /\ UNCHANGED job_rc
       ELSE job_pc' = [job_pc EXCEPT ![j] = "ri_rmi"] /\ job_rc' = [job_rc EXCEPT ![j] = 1]
    /\ UNCHANGED <<single, job_archive, job_uuid, image_cache>>

\* line 101, the return: the container has exited
HostRunEnd(j) ==
    /\ job_pc[j] = "running"
    /\ \E rc \in {0, 1} : job_rc' = [job_rc EXCEPT ![j] = rc]
    /\ job_pc' = [job_pc EXCEPT ![j] = "ri_rmi"]
    /\ UNCHANGED <<single, job_archive, job_uuid, image_cache>>

\* lines 102-105: rmi --force of the job's key; the executor refuses it only
\* while a container of that image is running
HostRmi(j) ==
    /\ job_pc[j] = "ri_rmi"
    /\ image_cache' =
           IF \E k \in Jobs : job_pc[k] = "running" /\ job_uuid[k] = job_uuid[j]
           THEN image_cache
           ELSE image_cache \ {job_uuid[j]}
    /\ job_pc' = [job_pc EXCEPT ![j] = "done"]
    /\ UNCHANGED <<single, job_archive, job_uuid, job_rc>>

NextHost ==
    \E j \in Jobs :
        \/ HostLoad(j)
        \/ HostRunStart(j)
        \/ HostRunEnd(j)
        \/ HostRmi(j)

SpecHost == InitHost /\ [][NextHost]_vars

\* ------------------------------------------------------------------------
\* Properties
\* ------------------------------------------------------------------------
Occurs(name) == \E i \in 1..Len(events) : events[i] = name

\* the events of a sequence that belong to a set, in order
RECURSIVE Only(_, _)
Only(seq, keep) ==
    IF seq = <<>> THEN <<>>
    ELSE (IF seq[1] \in keep THEN <<seq[1]>> ELSE <<>>) \o Only(Tail(seq), keep)

IsPrefix(a, b) == Len(a) <= Len(b) /\ a = SubSeq(b, 1, Len(a))

\* the commands of one kind that were issued: their places in cmds
Issued(kind) == {i \in 1..Len(cmds) : cmds[i][2] = <<kind>>}

HasFlag(cmd, flag) == \E i \in 1..Len(cmd) : cmd[i] = <<flag>>

\* the piece that follows a flag in a command
ValueAfter(cmd, flag) == cmd[(CHOOSE i \in 1..Len(cmd) : cmd[i] = <<flag>>) + 1]

\* C1: once run_image or run_morf_job has been left, by return, by an
\* exception of any step or by sys.exit, the temporary directory it created
\* and everything in it no longer exist.
C1_StagingRemoved == pc = "done" => \A p \in fs : ~Inside(p, WorkingDir)

\* run_image left by an exception of the upload, the directory having held
\* the image archive and the input and output directories
C1_Witness ==
    /\ pc = "done"
    /\ entry = "run_job"
    /\ raised_by = "move_results_to_destination"
    /\ Occurs("mkdtemp")
    /\ Occurs("cleanup")

\* C2: once run_image has been left with an image loaded, exactly one
\* removal command has been issued, it is rmi --force of the loaded image,
\* and that is so for a zero and for a non-zero exit status of the run.
C2_RemovedOnce ==
    (pc = "done" /\ entry = "run_job" /\ loaded) =>
        /\ Cardinality(Issued("rmi")) = 1
        /\ \A i \in Issued("rmi") : cmds[i] = RmiCmd("docker", image_uuid)
        /\ \A i \in Issued("rmi") : \E j \in Issued("run") : j < i

\* an image was loaded, the run exited non-zero, run_image was left
C2_Witness ==
    /\ pc = "done"
    /\ entry = "run_job"
    /\ loaded
    /\ \E j \in Issued("run") : rcs[j] = 1
    /\ Issued("rmi") # {}

\* the lifecycle events of run_morf_job
Lifecycle_events ==
    {"update_status:INITIALIZED", "send_email_alert",
     "fetch_file:docker_image", "fetch_file:controller.py",
     "cache_job_file_in_s3:docker_image", "cache_job_file_in_s3:controller.py",
     "controller", "update_status:SUCCESS", "update_status:FAILED", "send_success_email"}

Lifecycle == Only(events, Lifecycle_events)

CacheEvents ==
    IF no_cache THEN <<>>
    ELSE <<"cache_job_file_in_s3:docker_image", "cache_job_file_in_s3:controller.py">>

\* C3 as stated: INITIALIZED, initialization alert, fetches, optional cache,
\* controller, SUCCESS, success alert.
C3_StatusBeforeFetch ==
    entry = "run_morf_job" =>
        IsPrefix(Lifecycle,
                 <<"update_status:INITIALIZED", "send_email_alert",
                   "fetch_file:docker_image", "fetch_file:controller.py">>
                 \o CacheEvents
                 \o <<"controller", "update_status:SUCCESS", "send_success_email">>)

\* C3, amended: the lifecycle events of run_morf_job occur in the order
\* fetch of the image, fetch of the controller script, optional cache of both,
\* status INITIALIZED, initialization alert, controller, status SUCCESS,
\* success alert; INITIALIZED and the initialization alert come after the
\* fetch and cache and before the controller.
C3_FetchBeforeStatus ==
    entry = "run_morf_job" =>
        IsPrefix(Lifecycle,
                 <<"fetch_file:docker_image", "fetch_file:controller.py">>
                 \o CacheEvents
                 \o <<"update_status:INITIALIZED", "send_email_alert",
                      "controller", "update_status:SUCCESS", "send_success_email">>)

\* a job that cached its files and ran to the end
C3_Witness ==
    /\ pc = "done"
    /\ entry = "run_morf_job"
    /\ ~no_cache
    /\ exc = "none"
    /\ Len(Lifecycle) = 9

\* C4: the piece after --mode in the run command is "extract" for mode
\* extract-holdout and the mode itself for every other mode.
C4_ModeTranslation ==
    \A i \in Issued("run") :
        /\ HasFlag(cmds[i], "--mode")
        /\ ValueAfter(cmds[i], "--mode") =
               (IF mode = "extract-holdout" THEN <<"extract">> ELSE <<mode>>)

\* the run command of an extract-holdout job was issued
C4_Witness == mode = "extract-holdout" /\ Issued("run") # {}

\* C5 as stated: at level all the run command carries neither a course nor
\* a session, at level course the course and no session, at level session both.
C5_AbsentWhenNotMandated ==
    \A i \in Issued("run") :
        /\ HasFlag(cmds[i], "--course") <=> level \in {"course", "session"}
        /\ HasFlag(cmds[i], "--session") <=> level = "session"
        /\ level \in {"course", "session"} => ValueAfter(cmds[i], "--course") = Str(course)
        /\ level = "session" => ValueAfter(cmds[i], "--session") = Str(session)

\* C5, amended: the run command always carries --course and --session; the
\* value after --course is run_job's course at levels course and session and
\* the text None at level all, the value after --session is run_job's
\* session at level session and the text None at levels all and course.
C5_NoneWhenNotMandated ==
    \A i \in Issued("run") :
        /\ HasFlag(cmds[i], "--course")
        /\ HasFlag(cmds[i], "--session")
        /\ ValueAfter(cmds[i], "--course") =
               (IF level \in {"course", "session"} THEN Str(course) ELSE <<"None">>)
        /\ ValueAfter(cmds[i], "--session") =
               (IF level = "session" THEN Str(session) ELSE <<"None">>)

\* run_job was given a course and a session at level all, and the run
\* command was issued
C5_Witness ==
    /\ level = "all"
    /\ course = "CS101"
    /\ session = "002"
    /\ Issued("run") # {}

\* the fetches of run_image, in order
Fetches ==
    Only(events, {"fetch_file:docker_image", "initialize_raw_course_data",
                  "initialize_train_test_data", "download_models"})

\* C6 as stated: in test mode the fetches are train/test data, trained
\* models, container image, in this order, and no raw course data.
C6_ImageLast ==
    (entry = "run_job" /\ mode = "test") =>
        /\ IsPrefix(Fetches, <<"initialize_train_test_data", "download_models",
                               "fetch_file:docker_image">>)
        /\ Occurs("load") =>
               Fetches = <<"initialize_train_test_data", "download_models",
                           "fetch_file:docker_image">>

\* C6, amended: in test mode the fetches are container image, train/test
\* data, trained models, in this order (the container image is the first
\* artifact fetched), and no raw course data is fetched.
C6_ImageFirst ==
    (entry = "run_job" /\ mode = "test") =>
        /\ IsPrefix(Fetches, <<"fetch_file:docker_image", "initialize_train_test_data",
                               "download_models">>)
        /\ Occurs("load") =>
               Fetches = <<"fetch_file:docker_image", "initialize_train_test_data",
                           "download_models">>

\* a test job at level session that got as far as the load command
C6_Witness ==
    /\ entry = "run_job"
    /\ mode = "test"
    /\ level = "session"
    /\ Occurs("load")

\* C7: run_image fetches raw course data only in the modes extract and
\* extract-holdout, train/test data only in train and test, models only in
\* test; and when its fetch steps are over (the load command is issued) it
\* has fetched each of them in exactly those modes.
C7_FetchesByMode ==
    entry = "run_job" =>
        /\ Occurs("initialize_raw_course_data") => mode \in {"extract", "extract-holdout"}
        /\ Occurs("initialize_train_test_data") => mode \in {"train", "test"}
        /\ Occurs("download_models") => mode = "test"
        /\ Occurs("load") =>
               /\ mode \in {"extract", "extract-holdout"} => Occurs("initialize_raw_course_data")
               /\ mode \in {"train", "test"} => Occurs("initialize_train_test_data")
               /\ mode = "test" => Occurs("download_models")

\* an extract-holdout job fetched raw course data and went on to the load
C7_Witness ==
    /\ entry = "run_job"
    /\ mode = "extract-holdout"
    /\ Fetches = <<"fetch_file:docker_image", "initialize_raw_course_data">>
    /\ Occurs("load")

\* h is t without its leading and trailing whitespace
IsTrimOf(h, t) ==
    \E a, b \in 0..Len(t) :
        /\ a + Len(h) + b = Len(t)
        /\ \A i \in 1..Len(h) : h[i] = t[a + i]
        /\ \A i \in 1..a : t[i] \in Whitespace
        /\ \A i \in (Len(t) - b + 1)..Len(t) : t[i] \in Whitespace
        /\ h # <<>> => (h[1] \notin Whitespace /\ h[Len(h)] \notin Whitespace)

\* h is the last whitespace-delimited token of t
IsLastToken(h, t) ==
    /\ h # <<>>
    /\ \A i \in 1..Len(h) : h[i] \notin Whitespace
    /\ \E a \in 0..Len(t) :
        /\ a + Len(h) <= Len(t)
        /\ \A i \in 1..Len(h) : h[i] = t[a + i]
        /\ a > 0 => t[a] \in Whitespace
        /\ \A i \in (a + Len(h) + 1)..Len(t) : t[i] \in Whitespace

\* C8: the image key is the trimmed text after the sha256: marker (the last
\* one) when the load output has the marker, and the last
\* whitespace-delimited token of the output otherwise; the run command and
\* the removal command both name that key.
C8_HandleResolution ==
    (Occurs("load") /\ raised_by # "load_output.split()[-1]") =>
        /\ HasMarker(load_output) =>
               \E m \in 1..Len(load_output) :
                   /\ load_output[m] = Marker
                   /\ \A j \in (m + 1)..Len(load_output) : load_output[j] # Marker
                   /\ IsTrimOf(image_uuid, SubSeq(load_output, m + 1, Len(load_output)))
        /\ ~HasMarker(load_output) => IsLastToken(image_uuid, load_output)
        /\ load_output = <<Marker, "a", "\n">> => image_uuid = <<"a">>
        /\ load_output = <<"a", " ", "a">> => image_uuid = <<"a">>
        /\ \A i \in Issued("run") : cmds[i][7] = image_uuid
        /\ \A i \in Issued("rmi") : cmds[i][4] = image_uuid

\* the load printed a digest line, the image was run and removed
C8_Witness ==
    /\ load_output = <<Marker, "a", "\n">>
    /\ Issued("run") # {}
    /\ Issued("rmi") # {}

\* C9: when a fetch or cache call of run_morf_job raises KeyError, the
\* missing field is logged and the process ends with a non-zero status, with
\* no status update, no alert and no controller call made.
C9_MissingFieldFatal ==
    (entry = "run_morf_job" /\ (logged # "none" \/ exc = "SystemExit")) =>
        /\ logged \in ConfigFields
        /\ exc = "SystemExit"
        /\ pc \in {"unwind", "done"}
        /\ pc = "done" => (exit_code # 0 /\ exit_code # -1)
        /\ ~Occurs("update_status:INITIALIZED")
        /\ ~Occurs("update_status:SUCCESS")
        /\ ~Occurs("send_email_alert")
        /\ ~Occurs("send_success_email")
        /\ ~Occurs("controller")

\* the cache of the controller script raised KeyError and the process ended
C9_Witness ==
    /\ pc = "done"
    /\ raised_by = "cache_job_file_in_s3:controller.py"
    /\ logged = "controller_url"
    /\ exit_code = 255

\* C10: a notification that raises does not abort the job: when
\* run_morf_job is over and the initialization alert had raised, the
\* controller has been invoked and the status SUCCESS has been set.
C10_AlertFailureTolerated ==
    (pc = "done" /\ raised_by = "send_email_alert") =>
        /\ Occurs("controller")
        /\ Occurs("update_status:SUCCESS")

\* C11: when the load command exits non-zero, or prints nothing from which
\* an image name can be read, the load step fails and no run command is
\* issued.
C11_LoadFailureFatal ==
    (\E i \in Issued("load") :
         \/ rcs[i] # 0
         \/ (~HasMarker(load_output) /\ Split(load_output) = <<>>)) =>
        /\ Issued("run") = {}
        /\ exc = "IndexError"

\* C12: on a host shared by several run_image invocations, an image that a
\* job has loaded and has not yet finished running stays in the executor's
\* cache: no other job's rmi --force removes it.
C12_NoCrossJobRemoval ==
    \A j \in Jobs : job_pc[j] \in {"ri_run", "running"} => job_uuid[j] \in image_cache

\* the events after the first occurrence of an event
After(name) ==
    LET at == CHOOSE i \in 1..Len(events) :
                  events[i] = name /\ \A j \in 1..(i - 1) : events[j] # name
    IN  SubSeq(events, at + 1, Len(events))

\* the events of run_image
StepEvents ==
    {"mkdtemp", "fetch_file:docker_image", "print:[ERROR]", "initialize_input_output_dirs",
     "initialize_raw_course_data", "initialize_train_test_data", "download_models",
     "load", "run", "rmi", "make_output_archive_file", "move_results_to_destination",
     "cleanup"}

\* C13: a non-zero exit status of the run is not an error of run_image: what
\* follows the run is the removal, then the archiving, then the upload, and
\* when run_image is left all three have been made (the upload unless the
\* archiving itself raised).
C13_RunFailureNonFatal ==
    (entry = "run_job" /\ \E j \in Issued("run") : rcs[j] # 0) =>
        /\ raised_by # "run"
        /\ IsPrefix(Only(After("run"), {e \in StepEvents : e # "cleanup"}),
                    <<"rmi", "make_output_archive_file", "move_results_to_destination">>)
        /\ pc = "done" =>
               /\ Occurs("rmi")
               /\ Occurs("make_output_archive_file")
               /\ raised_by # "make_output_archive_file" =>
                      Occurs("move_results_to_destination")

\* the run exited non-zero and run_image returned after the upload
C13_Witness ==
    /\ pc = "done"
    /\ exc = "none"
    /\ \E j \in Issued("run") : rcs[j] = 1
    /\ After("run") = <<"rmi", "make_output_archive_file", "move_results_to_destination",
                        "cleanup">>

\* the events of run_morf_job after its controller call, the final cleanup
\* left out
AfterController == Only(After("controller"), Lifecycle_events)

\* C14: once the controller subprocess has returned, with any exit status,
\* the next call is update_status("SUCCESS") and after it send_success_email;
\* run_morf_job is not left before SUCCESS is set, and FAILED is never set.
C14_SuccessUnconditional ==
    (entry = "run_morf_job" /\ Occurs("controller")) =>
        /\ raised_by # "controller"
        /\ IsPrefix(AfterController, <<"update_status:SUCCESS", "send_success_email">>)
        /\ ~Occurs("update_status:FAILED")
        /\ pc = "done" =>
               /\ Occurs("update_status:SUCCESS")
               /\ raised_by # "update_status:SUCCESS" => Occurs("send_success_email")

\* the controller exited non-zero; SUCCESS was set and the success alert sent
C14_Witness ==
    /\ pc = "done"
    /\ exc = "none"
    /\ \E i \in Issued("controller.py") : rcs[i] = 1
    /\ AfterController = <<"update_status:SUCCESS", "send_success_email">>

\* the image fetch of run_image failed
ImageFetchFailed == entry = "run_job" /\ Occurs("print:[ERROR]")

\* no call into another module raised
NoCallRaised == raised_by \in {"none", "load_output.split()[-1]"}

\* C15 as stated: after a failed image fetch every later step (directory
\* creation, data fetches, load, run, removal, archive, upload) is still
\* attempted.
C15_AllStepsAttempted ==
    (pc = "done" /\ ImageFetchFailed /\ NoCallRaised) =>
        /\ Occurs("initialize_input_output_dirs")
        /\ Occurs("load")
        /\ Occurs("run")
        /\ Occurs("rmi")
        /\ Occurs("make_output_archive_file")
        /\ Occurs("move_results_to_destination")

\* C15, amended: a failed image fetch is printed and not propagated; the
\* directory creation, the data fetches of the mode and the load command are
\* still attempted, the load without its archive; the run, the removal, the
\* archiving and the upload are attempted only when the load command prints
\* text from which an image name is read, and when it prints none run_image
\* is left by IndexError with none of them attempted.
C15_LoadStillAttempted ==
    /\ entry = "run_job" => raised_by # "fetch_file:docker_image"
    /\ ImageFetchFailed =>
        /\ After("fetch_file:docker_image")[1] = "print:[ERROR]"
        /\ DockerImageFile \notin fs
        /\ ~loaded
        /\ (pc = "done" /\ NoCallRaised) =>
               /\ Occurs("initialize_input_output_dirs")
               /\ NeedsRawData(mode) => Occurs("initialize_raw_course_data")
               /\ NeedsTrainTest(mode) => Occurs("initialize_train_test_data")
               /\ NeedsModels(mode) => Occurs("download_models")
               /\ Occurs("load")
               /\ IF HasMarker(load_output) \/ Split(load_output) # <<>>
                  THEN /\ exc = "none"
                       /\ Occurs("run")
                       /\ Occurs("rmi")
                       /\ Occurs("make_output_archive_file")
                       /\ Occurs("move_results_to_destination")
                  ELSE /\ exc = "IndexError"
                       /\ ~Occurs("run")
                       /\ ~Occurs("rmi")
                       /\ ~Occurs("make_output_archive_file")
                       /\ ~Occurs("move_results_to_destination")

\* the image fetch failed, the load without the archive printed nothing and
\* run_image was left by IndexError
C15_Witness ==
    /\ pc = "done"
    /\ ImageFetchFailed
    /\ Occurs("load")
    /\ load_output = <<>>
    /\ exc = "IndexError"

\* C16: when the fetch of the image archive or of the controller script
\* raises in run_morf_job, for whatever reason, the job ends there: the
\* controller is not invoked, SUCCESS is not set, no success alert is sent,
\* and the temporary directory is removed; the controller is invoked only
\* with both files fetched.
C16_TopLevelFetchFatal ==
    entry = "run_morf_job" =>
        /\ raised_by \in {"fetch_file:docker_image", "fetch_file:controller.py"} =>
               /\ pc \in {"unwind", "done"}
               /\ exc \in {"Exception", "SystemExit"}
               /\ ~Occurs("controller")
               /\ ~Occurs("update_status:SUCCESS")
               /\ ~Occurs("send_success_email")
               /\ pc = "done" => (Occurs("cleanup") /\ WorkingDir \notin fs)
        /\ (Occurs("controller") /\ pc # "done") =>
               {DockerImageFile, ControllerFile} \subseteq fs

\* the download of the controller script failed for a reason other than a
\* missing field, and run_morf_job was left
C16_Witness ==
    /\ pc = "done"
    /\ entry = "run_morf_job"
    /\ raised_by = "fetch_file:controller.py"
    /\ exc = "Exception"
    /\ Occurs("cleanup")

\* C17: the steps of run_image come one after the other, each with its
\* prerequisite: the load after every fetch and with the image archive in the
\* staging directory, the run after the load, the removal and the archiving
\* after the run, the upload after the archiving.
C17_PrerequisitesHold ==
    entry = "run_job" =>
        /\ IsPrefix(Only(events, {"load", "run", "rmi", "make_output_archive_file",
                                  "move_results_to_destination"}),
                    <<"load", "run", "rmi", "make_output_archive_file",
                      "move_results_to_destination">>)
        /\ Occurs("load") =>
               Only(After("load"), {"fetch_file:docker_image", "initialize_raw_course_data",
                                    "initialize_train_test_data", "download_models"}) = <<>>
        /\ (Occurs("load") /\ pc # "done") => DockerImageFile \in fs

\* the data fetches of run_image, which write below the input directory
DataFetches ==
    Only(events, {"initialize_raw_course_data", "initialize_train_test_data",
                  "download_models"})

\* C18 as stated: no fetch and no run is attempted while the temporary
\* directory, its input or its output does not exist.
C18_DirsBeforeAnyFetch ==
    (entry = "run_job" /\ pc # "done" /\ (Fetches # <<>> \/ Occurs("run"))) =>
        {WorkingDir, InputDir, OutputDir} \subseteq fs

\* C18, amended: the temporary directory exists before any fetch; input and
\* output exist before any data fetch (raw data, train/test data, models),
\* before the load and before the run; the fetch of the image archive is
\* attempted before input and output are created.
C18_DirsBeforeDataFetch ==
    (entry = "run_job" /\ pc # "done") =>
        /\ Fetches # <<>> => WorkingDir \in fs
        /\ (DataFetches # <<>> \/ Occurs("load") \/ Occurs("run")) =>
               {WorkingDir, InputDir, OutputDir} \subseteq fs
        /\ pc = "ri_init_dirs" =>
               /\ Fetches = <<"fetch_file:docker_image">>
               /\ InputDir \notin fs
               /\ OutputDir \notin fs

\* a test job fetched its data and models into the input directory
C18_Witness ==
    /\ entry = "run_job"
    /\ pc = "ri_load"
    /\ DataFetches = <<"initialize_train_test_data", "download_models">>
    /\ {InputDir, OutputDir, TrainTestFiles, ModelFiles} \subseteq fs

\* the status updates and error alerts of run_morf_job, in order
StatusUpdates ==
    Only(events, {"update_status:INITIALIZED", "update_status:SUCCESS",
                  "update_status:FAILED", "send_error_email"})

\* C19: in every execution of run_morf_job the status updates are a prefix
\* of INITIALIZED, SUCCESS: SUCCESS never without INITIALIZED before it, each
\* at most once, FAILED never, and no error alert.
C19_StatusPrefix ==
    entry = "run_morf_job" =>
        IsPrefix(StatusUpdates, <<"update_status:INITIALIZED", "update_status:SUCCESS">>)

\* the job was left by a failed initialization alert with INITIALIZED as its
\* only status
C19_Witness ==
    /\ pc = "done"
    /\ entry = "run_morf_job"
    /\ raised_by = "send_email_alert"
    /\ StatusUpdates = <<"update_status:INITIALIZED">>

====
